---- MODULE Spec2Model ----
(***************************************************************************)
(* Model of the electricity tariff engine: calculate_bill (calculator.py), *)
(* invert_bill_to_kwh and extract_summary (app.py).                        *)
(*                                                                         *)
(* Numbers.  The program computes with Python floats.  The model computes  *)
(* with exact rationals on two fixed grids:                                *)
(*   - a consumption is a multiple of 2^-FRAC kWh (every value the         *)
(*     bisection can form from 0 and a power of two in at most MAX_ITER    *)
(*     halvings, plus the final (lo + hi) / 2, is on that grid);           *)
(*   - an amount of money is a multiple of 10^-8 * 2^-FRAC GHS, which      *)
(*     makes rate * kwh, 5 % of it and 20 % of (energy + service) exact.   *)
(* Grid values exceed the 32-bit integers of the model checker, so a       *)
(* natural number is a little-endian sequence of limbs in base BASE with   *)
(* no leading zero limb (zero is << >>), and a signed number is a record   *)
(* [neg, mag].                                                             *)
(***************************************************************************)
EXTENDS Integers, Sequences, FiniteSets, TLC

\* ------------------------------------------------------------------------
\* Arithmetic on naturals of arbitrary size
\*
\* The(S) is the element of a singleton S.  The({e(x) : x \in {v}}) is
\* e(v) with v evaluated once; the operators below are written that way so
\* that no operand is evaluated again at each of its uses.
\* ------------------------------------------------------------------------
BASE == 10000

The(S) == CHOOSE r \in S : TRUE

RECURSIVE Strip(_)
Strip(s) == IF s = << >> THEN << >>
            ELSE IF s[Len(s)] = 0
            THEN The({Strip(t) : t \in {SubSeq(s, 1, Len(s) - 1)}})
            ELSE s

\* s without leading zero limbs
Norm(s0) == The({Strip(s) : s \in {s0}})

RECURSIVE NatFrom(_)
NatFrom(n) == IF n = 0 THEN << >>
              ELSE The({<<n % BASE>> \o NatFrom(q) : q \in {n \div BASE}})

\* The natural n, n an integer of the model checker
NatOf(n0) == The({NatFrom(n) : n \in {n0}})

Limb(a, i) == IF i <= Len(a) THEN a[i] ELSE 0

MaxOf(x, y) == IF x >= y THEN x ELSE y

RECURSIVE AddFrom(_, _, _, _)
AddFrom(a, b, i, carry) ==
    IF i > MaxOf(Len(a), Len(b))
    THEN (IF carry = 0 THEN << >> ELSE <<carry>>)
    ELSE The({<<t % BASE>> \o The({AddFrom(a, b, j, c) :
                                      j \in {i + 1}, c \in {t \div BASE}}) :
                t \in {Limb(a, i) + Limb(b, i) + carry}})

\* a + b
AddN(a0, b0) == The({AddFrom(a, b, 1, 0) : a \in {a0}, b \in {b0}})

RECURSIVE SubFrom(_, _, _, _)
SubFrom(a, b, i, borrow) ==
    IF i > Len(a) THEN << >>
    ELSE The({IF t < 0
              THEN <<t + BASE>> \o The({SubFrom(a, b, j, 1) : j \in {i + 1}})
              ELSE <<t>> \o The({SubFrom(a, b, j, 0) : j \in {i + 1}}) :
                t \in {Limb(a, i) - Limb(b, i) - borrow}})

\* a - b for a >= b
SubN(a0, b0) == The({Norm(SubFrom(a, b, 1, 0)) : a \in {a0}, b \in {b0}})

RECURSIVE MulSmallFrom(_, _, _, _)
MulSmallFrom(a, k, i, carry) ==
    IF i > Len(a) THEN NatOf(carry)
    ELSE The({<<t % BASE>> \o The({MulSmallFrom(a, k, j, c) :
                                      j \in {i + 1}, c \in {t \div BASE}}) :
                t \in {a[i] * k + carry}})

\* a * k for a small k (k * BASE fits the integers)
MulSmall(a0, k0) ==
    The({IF k = 0 THEN << >> ELSE MulSmallFrom(a, k, 1, 0) :
           a \in {a0}, k \in {k0}})

ShiftLimbs(a, n) == IF a = << >> THEN << >> ELSE [i \in 1..n |-> 0] \o a

RECURSIVE MulFrom(_, _, _)
MulFrom(a, b, j) ==
    IF j > Len(b) THEN << >>
    ELSE AddN(ShiftLimbs(MulSmall(a, b[j]), j - 1),
              The({MulFrom(a, b, k) : k \in {j + 1}}))

\* a * b
MulN(a0, b0) == The({MulFrom(a, b, 1) : a \in {a0}, b \in {b0}})

RECURSIVE DivSmallFrom(_, _, _, _)
DivSmallFrom(a, d, i, rem) ==
    IF i = 0 THEN << >>
    ELSE The({The({DivSmallFrom(a, d, j, r) :
                     j \in {i - 1}, r \in {t % d}}) \o <<t \div d>> :
                t \in {rem * BASE + a[i]}})

\* a \div d for a small d, the remainder dropped
DivSmall(a0, d0) ==
    The({Norm(DivSmallFrom(a, d, Len(a), 0)) : a \in {a0}, d \in {d0}})

RECURSIVE LessFrom(_, _, _)
LessFrom(a, b, i) ==
    IF i = 0 THEN FALSE
    ELSE IF a[i] # b[i] THEN a[i] < b[i]
    ELSE The({LessFrom(a, b, j) : j \in {i - 1}})

\* a < b
LessN(a0, b0) ==
    The({IF Len(a) # Len(b) THEN Len(a) < Len(b)
         ELSE LessFrom(a, b, Len(a)) : a \in {a0}, b \in {b0}})

LeqN(a, b) == ~LessN(b, a)

\* min(a, b)
MinN(a0, b0) == The({IF LessN(b, a) THEN b ELSE a : a \in {a0}, b \in {b0}})

\* max(0.0, a - b)
MonusN(a0, b0) ==
    The({IF LessN(b, a) THEN SubN(a, b) ELSE << >> : a \in {a0}, b \in {b0}})

RECURSIVE Pow2(_)
Pow2(n) == IF n <= 13 THEN <<2 ^ n>>
           ELSE The({IF n % 2 = 0 THEN square ELSE MulSmall(square, 2) :
                       square \in {The({MulN(half, half) :
                                          half \in {Pow2(n \div 2)}})}})

\* Signed numbers
Pos(m) == [neg |-> FALSE, mag |-> m]
Neg(m) == [neg |-> TRUE, mag |-> m]
IsNegative(x) == x.neg /\ x.mag # << >>
IsPositive(x) == ~x.neg /\ x.mag # << >>

\* ------------------------------------------------------------------------
\* Units
\* ------------------------------------------------------------------------
MAX_ITER == 60                       \* default of max_iter
FRAC == MAX_ITER + 1
KWH_ONE == Pow2(FRAC)                \* 1 kWh on the consumption grid
MICRO == MulSmall(KWH_ONE, 100)      \* 10^-6 GHS on the money grid

\* n / 2^shift kWh, for a small shift
KwhOf(n, shift) == DivSmall(MulN(NatOf(n), KWH_ONE), 2 ^ shift)
\* micro * 10^-6 GHS
Money(micro) == MulN(NatOf(micro), MICRO)
\* kwh * rate, the rate in 10^-6 GHS per kWh
TimesRate(kwh, rate) == MulSmall(MulN(kwh, NatOf(rate)), 100)
\* pct / 100 * amount
Percent(pct, amount) == DivSmall(MulSmall(amount, pct), 100)

\* ------------------------------------------------------------------------
\* calculator.py
\* ------------------------------------------------------------------------
RES_LIFELINE_MAX == 30
BLOCK_300 == 300
LEVY_RATE == 5                       \* 0.05, in percent
TAX_RATE == 20                       \* 0.20, in percent

\* Rates are published per 100 units and divided by 100: 80.4389 / 100 is
\* 804389 * 10^-6 GHS per kWh.  Service charges are in 10^-6 GHS.
TARIFFS ==
    [y \in {"2025", "2026"} |->
       IF y = "2025"
       THEN [rates |-> [RES_LIFELINE |-> 804389, RES_B1 |-> 1822442,
                        RES_B2 |-> 2408059, NONRES_B1 |-> 1645377,
                        NONRES_B2 |-> 2044809, SLT_LV |-> 2455597,
                        SLT_MV1 |-> 1960119, SLT_MV2 |-> 1278861,
                        SLT_HV |-> 1960119],
             service |-> ("Residential (Lifeline)" :> 2130000
                          @@ "Residential (Other)" :> 10730100
                          @@ "Non-Residential" :> 12428000
                          @@ "SLT" :> 500000000)]
       ELSE [rates |-> [RES_LIFELINE |-> 883739, RES_B1 |-> 2002218,
                        RES_B2 |-> 2645604, NONRES_B1 |-> 1807687,
                        NONRES_B2 |-> 2246521, SLT_LV |-> 2697832,
                        SLT_MV1 |-> 2153477, SLT_MV2 |-> 1342804,
                        SLT_HV |-> 2153477],
             service |-> ("Residential (Lifeline)" :> 2130000
                          @@ "Residential (Other)" :> 10730886
                          @@ "Non-Residential" :> 12428245
                          @@ "SLT" :> 500000000)]]

BillLine(label, amount) == [label |-> label, amount |-> amount]

StartsWith(s, prefix) ==
    /\ Len(s) >= Len(prefix)
    /\ SubSeq(s, 1, Len(prefix)) = prefix

\* The negation dropped
is_taxable_NoNot(category) == StartsWith(category, "Residential")

is_taxable(category) == ~StartsWith(category, "Residential")

\* A raised exception, by its message
Raise(message) == [ok |-> FALSE, error |-> message]

\* The comparison turned round: kwh >= RES_LIFELINE_MAX
InLifeline_Flipped(kwh) == LeqN(KwhOf(RES_LIFELINE_MAX, 0), kwh)

\* The comparison made strict: kwh < RES_LIFELINE_MAX
InLifeline_Strict(kwh) == LessN(kwh, KwhOf(RES_LIFELINE_MAX, 0))

\* kwh <= RES_LIFELINE_MAX
InLifeline(kwh) == LeqN(kwh, KwhOf(RES_LIFELINE_MAX, 0))

\* The block 2 line appended without its test
BlockCharge_AlwaysBlock2(kwh, rate_b1, rate_b2, service) ==
    LET kwh_b1 == MinN(kwh, KwhOf(BLOCK_300, 0))
        kwh_b2 == MonusN(kwh, KwhOf(BLOCK_300, 0))
        e1 == TimesRate(kwh_b1, rate_b1)
        e2 == TimesRate(kwh_b2, rate_b2)
    IN  [ok |-> TRUE,
         energy |-> AddN(e1, e2),
         service |-> Money(service),
         breakdown |->
            <<BillLine("Energy charge block 1", e1),
              BillLine("Energy charge block 2", e2)>>]

\* The two-block split of the Residential (above the lifeline) and
\* Non-Residential categories
BlockCharge(kwh, rate_b1, rate_b2, service) ==
    LET kwh_b1 == MinN(kwh, KwhOf(BLOCK_300, 0))
        kwh_b2 == MonusN(kwh, KwhOf(BLOCK_300, 0))
        e1 == TimesRate(kwh_b1, rate_b1)
        e2 == TimesRate(kwh_b2, rate_b2)
    IN  [ok |-> TRUE,
         energy |-> AddN(e1, e2),
         service |-> Money(service),
         breakdown |->
            <<BillLine("Energy charge block 1", e1)>>
            \o (IF kwh_b2 # << >>
                THEN <<BillLine("Energy charge block 2", e2)>>
                ELSE << >>)]

\* A category left out of the map
rate_map_NoMines(rates) ==
    "SLT-LV" :> rates.SLT_LV
    @@ "SLT-MV1/HV" :> rates.SLT_MV1
    @@ "SLT-MV2" :> rates.SLT_MV2
    @@ "SLT-HV" :> rates.SLT_HV

rate_map(rates) ==
    "SLT-LV" :> rates.SLT_LV
    @@ "SLT-MV1/HV" :> rates.SLT_MV1
    @@ "SLT-MV2" :> rates.SLT_MV2
    @@ "SLT-HV" :> rates.SLT_HV
    @@ "SLT-HV MINES" :> rates.SLT_HV

\* The energy charge, the service charge and the energy lines of the
\* breakdown; kwh is a natural here
EnergyCharge(rates, services, category, kwh) ==
    IF category = "Residential"
    THEN IF InLifeline(kwh)
         THEN LET energy == TimesRate(kwh, rates.RES_LIFELINE)
              IN  [ok |-> TRUE,
                   energy |-> energy,
                   service |-> Money(services["Residential (Lifeline)"]),
                   breakdown |->
                      <<BillLine("Energy charge (Lifeline)", energy)>>]
         ELSE BlockCharge(kwh, rates.RES_B1, rates.RES_B2,
                          services["Residential (Other)"])
    ELSE IF category = "Non-Residential"
    THEN BlockCharge(kwh, rates.NONRES_B1, rates.NONRES_B2,
                     services["Non-Residential"])
    ELSE IF category \notin DOMAIN rate_map(rates)
    THEN Raise("Unsupported customer category.")
    ELSE LET energy == TimesRate(kwh, rate_map(rates)[category])
         IN  [ok |-> TRUE,
              energy |-> energy,
              service |-> Money(services["SLT"]),
              breakdown |-> <<BillLine("Energy charge", energy)>>]

Levy(energy) == Percent(LEVY_RATE, energy)

Tax(category, energy, service) ==
    IF is_taxable(category)
    THEN Percent(TAX_RATE, AddN(energy, service))
    ELSE << >>

\* The tax left out of the sum
Total_NoTax(energy, service, levy, tax) == AddN(AddN(energy, service), levy)

Total(energy, service, levy, tax) ==
    AddN(AddN(AddN(energy, service), levy), tax)

\* The BillResult of a consumption with these energy and service charges
BillResult(year, category, kwh, energy, service, energy_lines) ==
    The({The({[ok |-> TRUE,
               year |-> year,
               category |-> category,
               kwh |-> kwh,
               energy_charge |-> energy,
               service_charge |-> service,
               levy |-> levy,
               tax |-> tax,
               total |-> total,
               breakdown |->
                  energy_lines
                  \o <<BillLine("Service charge", service),
                       BillLine("Levies", levy),
                       BillLine("Taxes", tax),
                       BillLine("Total payable", total)>>] :
                total \in {Total(energy, service, levy, tax)}}) :
           levy \in {Levy(energy)},
           tax \in {Tax(category, energy, service)}})

\* calculate_bill(year, category, kwh); kwh is a signed number
calculate_bill(year, category, kwh) ==
    IF year \notin DOMAIN TARIFFS
    THEN Raise("Unsupported tariff year.")
    ELSE IF IsNegative(kwh)
    THEN Raise("kWh cannot be negative.")
    ELSE The({IF ~charge.ok THEN charge
              ELSE BillResult(year, category, kwh, charge.energy,
                              charge.service, charge.breakdown) :
                charge \in {EnergyCharge(TARIFFS[year].rates,
                                         TARIFFS[year].service,
                                         category, kwh.mag)}})

\* ------------------------------------------------------------------------
\* app.py: extract_summary and the displayed levies
\* ------------------------------------------------------------------------
UPPER == "ABCDEFGHIJKLMNOPQRSTUVWXYZ"
LOWER == "abcdefghijklmnopqrstuvwxyz"

LowerChar(c) ==
    IF \E i \in 1..Len(UPPER) : SubSeq(UPPER, i, i) = c
    THEN LET i == CHOOSE j \in 1..Len(UPPER) : SubSeq(UPPER, j, j) = c
         IN  SubSeq(LOWER, i, i)
    ELSE c

RECURSIVE LowerFrom(_)
LowerFrom(s) ==
    IF Len(s) = 0 THEN ""
    ELSE LowerChar(SubSeq(s, 1, 1))
         \o The({LowerFrom(rest) : rest \in {SubSeq(s, 2, Len(s))}})

\* str.lower()
Lower(s0) == The({LowerFrom(s) : s \in {s0}})

\* sub in s
Contains(sub, s) ==
    \E i \in 1..(Len(s) - Len(sub) + 1) : SubSeq(s, i, i + Len(sub) - 1) = sub

\* The if/elif chain on a breakdown label
Classify(raw_label) ==
    LET label == Lower(raw_label)
    IN  IF Contains("energy", label) THEN "energy"
        ELSE IF Contains("service", label) THEN "service"
        ELSE IF Contains("tax", label) \/ Contains("vat", label) THEN "taxes"
        ELSE IF Contains("levy", label) THEN "levies"
        ELSE "none"

\* The sum of the amounts of the lines classified as kind
RECURSIVE SumLines(_, _)
SumLines(breakdown, kind) ==
    IF breakdown = << >> THEN << >>
    ELSE LET line == Head(breakdown)
             rest == SumLines(Tail(breakdown), kind)
         IN  IF Classify(line.label) = kind THEN AddN(line.amount, rest)
             ELSE rest

extract_summary(result, category) ==
    LET energy == SumLines(result.breakdown, "energy")
        service == SumLines(result.breakdown, "service")
        taxes == SumLines(result.breakdown, "taxes")
        levies == SumLines(result.breakdown, "levies")
    IN  [energy |-> energy,
         service |-> service,
         levies |-> IF category = "Residential" THEN Percent(5, energy)
                    ELSE levies,
         taxes |-> IF category = "Residential" THEN << >> ELSE taxes,
         total |-> result.total]

levies_display(category, r) ==
    IF category = "Residential" THEN r.levies ELSE AddN(r.levies, r.taxes)

NoSummary == [energy |-> << >>, service |-> << >>, levies |-> << >>,
              taxes |-> << >>, total |-> << >>]
NoResult == Raise("")

\* ------------------------------------------------------------------------
\* Inputs
\* ------------------------------------------------------------------------
MaxKwhIdx == 4          \* consumptions 0, 100, ..., 100 * MaxKwhIdx kWh
MaxIterBound == 2       \* max_iter in 0..MaxIterBound, and the default

TOL == 10000            \* default of tol: 0.01 GHS, in 10^-6 GHS
HI_LIMIT == 1000000     \* the bracket's bound on hi, kWh

Ghs(n) == MulN(NatOf(n), Money(1000000))

YearInputs == {"2025", "2026", "2099"}

Categories == {"Residential", "Non-Residential", "SLT-LV", "SLT-MV1/HV",
               "SLT-MV2", "SLT-HV", "SLT-HV MINES"}

CategoryInputs == Categories \cup {"Industrial", "Residential (Other)"}

\* Consumptions >= 0: the grid, and the points around the two thresholds
KwhPoints ==
    {KwhOf(100 * n, 0) : n \in 0..MaxKwhIdx}
    \cup {KwhOf(20, 0), KwhOf(30, 0), KwhOf(1921, 6), KwhOf(300, 0),
          KwhOf(19201, 6), KwhOf(1000, 0)}

KwhInputs == {Pos(k) : k \in KwhPoints} \cup {Neg(KwhOf(1, 0))}

\* Target totals: none, negative, below every bill, between bills, beyond
\* the bracket, and the totals of known consumptions
TargetInputs(y, c) ==
    {Neg(Ghs(1)), Pos(<< >>), Pos(Ghs(1)), Pos(Ghs(40)), Pos(Ghs(700)),
     Pos(Ghs(2000000))}
    \cup {Pos(calculate_bill(y, c, Pos(k)).total) :
            k \in {q \in KwhPoints \cup {KwhOf(524288, 0), KwhOf(600000, 0)} :
                     calculate_bill(y, c, Pos(q)).ok}}

MaxIterInputs == 0..MaxIterBound \cup {MAX_ITER}

\* ------------------------------------------------------------------------
\* State
\* ------------------------------------------------------------------------
VARIABLES
    year, category,  \* the selected tariff year and customer category
    mode,            \* "Bill from kWh" or "kWh from Bill"
    value,           \* the consumption or the target total entered
    tol, max_iter,   \* the arguments of invert_bill_to_kwh
    pc,              \* where the run is: "input", then "billed" and
                     \* "rebilled", or "bracket", "bisect", "returned"
                     \* and "estimated"; "invert_raised" when
                     \* invert_bill_to_kwh raised, "raised" when the
                     \* script's own calculate_bill did
    result,          \* the outcome of the last calculate_bill of the run
    prev,            \* the result of the run before, NoResult if none
    summary,         \* what extract_summary returned for result
    lo, hi, it,      \* the locals of invert_bill_to_kwh
    calls,           \* calculate_bill calls made by invert_bill_to_kwh
    doublings,       \* times the bracket phase doubled hi
    ret,             \* the value invert_bill_to_kwh returned
    error            \* the message of the exception that ended the run

vars == <<year, category, mode, value, tol, max_iter, pc, result, prev,
          summary, lo, hi, it, calls, doublings, ret, error>>

inputs == <<year, category, mode, tol, max_iter>>
locals == <<lo, hi, it, calls, doublings, ret>>

Init ==
    /\ year \in YearInputs
    /\ category \in CategoryInputs
    /\ mode \in {"Bill from kWh", "kWh from Bill"}
    /\ value \in IF mode = "Bill from kWh" THEN KwhInputs
                 ELSE TargetInputs(year, category)
    /\ tol = Money(TOL)
    /\ max_iter \in IF mode = "Bill from kWh" THEN {MAX_ITER}
                    ELSE MaxIterInputs
    /\ pc = "input"
    /\ result = NoResult
    /\ prev = NoResult
    /\ summary = NoSummary
    /\ lo = << >>
    /\ hi = << >>
    /\ it = 0
    /\ calls = 0
    /\ doublings = 0
    /\ ret = << >>
    /\ error = ""

\* result = calculate_bill(year, category, kwh) followed by extract_summary,
\* or the exception of calculate_bill
Billed(kwh, next_pc) ==
    \E r \in {calculate_bill(year, category, kwh)} :
        /\ result' = r
        /\ IF r.ok
           THEN /\ summary' = extract_summary(r, category)
                /\ pc' = next_pc
                /\ error' = ""
           ELSE /\ summary' = NoSummary
                /\ pc' = "raised"
                /\ error' = r.error

\* "Bill from kWh"
BillFromKwh ==
    /\ pc = "input"
    /\ mode = "Bill from kWh"
    /\ Billed(value, "billed")
    /\ UNCHANGED <<inputs, value, prev, locals>>

\* The script runs again with another consumption
BillAgain ==
    /\ pc = "billed"
    /\ \E k \in KwhInputs :
         /\ value' = k
         /\ prev' = result
         /\ Billed(k, "rebilled")
    /\ UNCHANGED <<inputs, locals>>

\* The comparison made strict: target_total < 0
Shortcut_Strict(target_total) == IsNegative(target_total)

\* target_total <= 0
Shortcut(target_total) == ~IsPositive(target_total)

\* invert_bill_to_kwh up to the first loop
InvertStart ==
    /\ pc = "input"
    /\ mode = "kWh from Bill"
    /\ IF Shortcut(value)
       THEN /\ ret' = << >>
            /\ pc' = "returned"
            /\ UNCHANGED <<lo, hi>>
       ELSE /\ lo' = << >>
            /\ hi' = KwhOf(1, 0)
            /\ pc' = "bracket"
            /\ ret' = ret
    /\ UNCHANGED <<inputs, value, result, prev, summary, it, calls,
                   doublings, error>>

\* hi += 2 for hi *= 2
Doubled_Added(h) == AddN(h, KwhOf(2, 0))

\* hi *= 2
Doubled(h) == MulSmall(h, 2)

\* One test of the while loop, and its body
BracketStep ==
    /\ pc = "bracket"
    /\ calls' = calls + 1
    /\ \E r \in {calculate_bill(year, category, Pos(hi))} :
           IF ~r.ok
           THEN /\ pc' = "invert_raised"
                /\ error' = r.error
                /\ UNCHANGED <<hi, doublings>>
           ELSE IF LessN(r.total, value.mag)
           THEN /\ hi' = Doubled(hi)
                /\ doublings' = doublings + 1
                /\ IF LessN(KwhOf(HI_LIMIT, 0), hi')
                   THEN /\ pc' = "invert_raised"
                        /\ error' =
                             "Unable to estimate kWh for this bill amount."
                   ELSE /\ pc' = "bracket"
                        /\ error' = error
           ELSE /\ pc' = "bisect"
                /\ UNCHANGED <<hi, doublings, error>>
    /\ UNCHANGED <<inputs, value, result, prev, summary, lo, it, ret>>

\* lo + hi / 2 for (lo + hi) / 2
Mid_Precedence(l, h) == AddN(l, DivSmall(h, 2))

\* (lo + hi) / 2
Mid(l, h) == DivSmall(AddN(l, h), 2)

\* One iteration of the for loop, or the return after it
BisectStep ==
    /\ pc = "bisect"
    /\ IF it < max_iter
       THEN \E mid \in {Mid(lo, hi)} :
            \E r \in {calculate_bill(year, category, Pos(mid))} :
                /\ it' = it + 1
                /\ calls' = calls + 1
                /\ IF ~r.ok
                   THEN /\ pc' = "invert_raised"
                        /\ error' = r.error
                        /\ UNCHANGED <<lo, hi, ret>>
                   ELSE /\ error' = error
                        /\ IF /\ LeqN(r.total, AddN(value.mag, tol))
                              /\ LeqN(value.mag, AddN(r.total, tol))
                           THEN /\ ret' = mid
                                /\ pc' = "returned"
                                /\ UNCHANGED <<lo, hi>>
                           ELSE IF LessN(r.total, value.mag)
                           THEN /\ lo' = mid
                                /\ UNCHANGED <<hi, ret, pc>>
                           ELSE /\ hi' = mid
                                /\ UNCHANGED <<lo, ret, pc>>
       ELSE /\ ret' = Mid(lo, hi)
            /\ pc' = "returned"
            /\ UNCHANGED <<lo, hi, it, calls, error>>
    /\ UNCHANGED <<inputs, value, result, prev, summary, doublings>>

\* "kWh from Bill": the bill at the estimate
Estimate ==
    /\ pc = "returned"
    /\ Billed(Pos(ret), "estimated")
    /\ UNCHANGED <<inputs, value, prev, locals>>

Next ==
    \/ BillFromKwh
    \/ BillAgain
    \/ InvertStart
    \/ BracketStep
    \/ BisectStep
    \/ Estimate

Spec == Init /\ [][Next]_vars

\* ------------------------------------------------------------------------
\* Properties
\* ------------------------------------------------------------------------
Supported == year \in {"2025", "2026"} /\ category \in Categories

\* The labels of a breakdown, in order
Labels(breakdown) == [i \in 1..Len(breakdown) |-> breakdown[i].label]

\* |a - b| <= t
Within(a, b, t) == LeqN(a, AddN(b, t)) /\ LeqN(b, AddN(a, t))

FromKwh == mode = "Bill from kWh"
FromBill == mode = "kWh from Bill"

\* C1: the total of every bill is energy + service + levy + tax, and the
\* last line of its breakdown is "Total payable" with the total as amount.
C1_TotalIsSum ==
    result.ok =>
      /\ result.total
           = AddN(AddN(AddN(result.energy_charge, result.service_charge),
                       result.levy), result.tax)
      /\ result.breakdown[Len(result.breakdown)]
           = [label |-> "Total payable", amount |-> result.total]

\* A bill with all four components positive
C1_Witness ==
    /\ pc = "billed"
    /\ result.ok
    /\ result.energy_charge # << >>
    /\ result.levy # << >>
    /\ result.tax # << >>

\* C3: for the same year and category, the bill of the larger consumption
\* is not the smaller one.
C3_Monotone ==
    (pc = "rebilled" /\ prev.ok /\ result.ok
       /\ LeqN(prev.kwh.mag, result.kwh.mag))
    => LeqN(prev.total, result.total)

\* Two Residential bills, at 30 kWh and just above
C3_Witness ==
    /\ pc = "rebilled"
    /\ category = "Residential"
    /\ prev.ok /\ result.ok
    /\ prev.kwh = Pos(KwhOf(30, 0))
    /\ result.kwh = Pos(KwhOf(1921, 6))
    /\ LessN(prev.total, result.total)

\* C4: no tax for a category whose name starts with "Residential", and a
\* tax of a fifth of energy + service for every other category.
C4_Tax ==
    result.ok =>
      IF StartsWith(result.category, "Residential")
      THEN result.tax = << >>
      ELSE MulSmall(result.tax, 5)
             = AddN(result.energy_charge, result.service_charge)

\* A taxed bill
C4_Witness ==
    /\ pc = "billed"
    /\ result.ok
    /\ result.category = "SLT-HV MINES"
    /\ result.tax # << >>

\* The errors of section 7, told apart by the message raised
ConfigurationError(r) == ~r.ok /\ r.error = "Unsupported tariff year."
InvalidInputError(r) ==
    /\ ~r.ok
    /\ r.error \in {"kWh cannot be negative.",
                    "Unsupported customer category."}

\* C5: calculate_bill fails when the year is not in the table, the
\* consumption is negative or the category is not recognized: with the
\* year's error when the year is at fault, else with the negative
\* consumption's, else with the category's; it succeeds otherwise.
C5_Preconditions ==
    (FromKwh /\ pc # "input") =>
      IF year \notin {"2025", "2026"}
      THEN ConfigurationError(result)
      ELSE IF IsNegative(value)
      THEN InvalidInputError(result) /\ result.error = "kWh cannot be negative."
      ELSE IF category \notin Categories
      THEN /\ InvalidInputError(result)
           /\ result.error = "Unsupported customer category."
      ELSE result.ok /\ pc \in {"billed", "rebilled"}

\* A call that fails on its category alone
C5_Witness ==
    /\ FromKwh
    /\ pc = "raised"
    /\ year = "2026"
    /\ ~IsNegative(value)
    /\ category = "Residential (Other)"
    /\ InvalidInputError(result)

\* C6: for a target total <= 0, whatever the year and the category,
\* invert_bill_to_kwh returns 0, calls calculate_bill not once and does not
\* raise.
C6_Shortcut ==
    (FromBill /\ ~IsPositive(value)) =>
      /\ calls = 0
      /\ pc \in {"input", "returned", "estimated", "raised"}
      /\ ret = << >>

\* A negative target with an unsupported year and category, returned
C6_Witness ==
    /\ FromBill
    /\ pc = "returned"
    /\ IsNegative(value)
    /\ year = "2099"
    /\ category = "Industrial"
    /\ ret = << >>

\* C7: a Residential bill of at most 30 kWh is the whole consumption at
\* the lifeline rate with the lifeline service charge; above 30 kWh it is
\* min(kwh, 300) at the block 1 rate plus max(0, kwh - 300) at the block 2
\* rate, with the other residential service charge.
C7_Residential ==
    (result.ok /\ result.category = "Residential") =>
      LET kwh == result.kwh.mag
          rates == TARIFFS[result.year].rates
          services == TARIFFS[result.year].service
      IN  IF LeqN(kwh, KwhOf(30, 0))
          THEN /\ result.energy_charge = TimesRate(kwh, rates.RES_LIFELINE)
               /\ result.service_charge
                    = Money(services["Residential (Lifeline)"])
          ELSE /\ result.energy_charge
                    = AddN(TimesRate(MinN(kwh, KwhOf(300, 0)), rates.RES_B1),
                           TimesRate(MonusN(kwh, KwhOf(300, 0)),
                                     rates.RES_B2))
               /\ result.service_charge
                    = Money(services["Residential (Other)"])

\* The Residential bill at exactly 30 kWh
C7_Witness ==
    /\ pc = "billed"
    /\ result.ok
    /\ result.category = "Residential"
    /\ result.kwh = Pos(KwhOf(30, 0))

\* The energy labels the claim gives for a category and a consumption
C8_EnergyLabels(c, kwh) ==
    IF c = "Residential" /\ LeqN(kwh, KwhOf(30, 0))
    THEN <<"Energy charge (Lifeline)">>
    ELSE IF c \in {"Residential", "Non-Residential"}
    THEN IF LessN(KwhOf(300, 0), kwh)
         THEN <<"Energy charge block 1", "Energy charge block 2">>
         ELSE <<"Energy charge block 1">>
    ELSE <<"Energy charge">>

\* C8: the breakdown is the energy lines of the tier, then "Service
\* charge", "Levies", "Taxes" and "Total payable", the last three also
\* when their amount is zero; block 2 appears exactly above 300 kWh.
C8_Breakdown ==
    result.ok =>
      Labels(result.breakdown)
        = C8_EnergyLabels(result.category, result.kwh.mag)
          \o <<"Service charge", "Levies", "Taxes", "Total payable">>

\* A bill at exactly 300 kWh, block 2 suppressed, after one of 0 kWh whose
\* levy and tax are zero and present
C8_Witness ==
    /\ pc = "rebilled"
    /\ category = "Residential"
    /\ prev.ok /\ result.ok
    /\ prev.kwh.mag = << >>
    /\ prev.levy = << >>
    /\ Len(prev.breakdown) = 5
    /\ result.kwh = Pos(KwhOf(300, 0))
    /\ Len(result.breakdown) = 5

\* The total of the bill of k kWh for the selected year and category
TotalAt(k) == calculate_bill(year, category, Pos(k)).total

\* The largest hi the bracket phase tests: 2^19 kWh, the last power of two
\* that is not above HI_LIMIT
LastBracket == KwhOf(524288, 0)

\* The Residential bill just above 30 kWh, as a limit: block pricing at 30
BlockTotalAtLifeline ==
    The({BillResult(year, category, Pos(KwhOf(30, 0)), charge.energy,
                    charge.service, charge.breakdown).total :
           charge \in {BlockCharge(KwhOf(30, 0),
                                   TARIFFS[year].rates.RES_B1,
                                   TARIFFS[year].rates.RES_B2,
                                   TARIFFS[year].service
                                     ["Residential (Other)"])}})

\* The target is the total of some consumption in [0, LastBracket]: the
\* total is continuous and increasing from 0 kWh on, but for the jump of
\* the Residential bill at 30 kWh
Attained ==
    /\ Supported
    /\ IsPositive(value)
    /\ LeqN(TotalAt(<< >>), value.mag)
    /\ LeqN(value.mag, TotalAt(LastBracket))
    /\ category = "Residential" =>
         \/ LeqN(value.mag, TotalAt(KwhOf(30, 0)))
         \/ LessN(BlockTotalAtLifeline, value.mag)

\* The consumptions whose totals are among the targets
Preimages == KwhPoints \cup {LastBracket, KwhOf(600000, 0)}

\* The target is the total of a consumption of at most HI_LIMIT kWh
AttainedBelowLimit ==
    /\ Supported
    /\ IsPositive(value)
    /\ \E k \in Preimages :
         LeqN(k, KwhOf(HI_LIMIT, 0)) /\ TotalAt(k) = value.mag

\* C2 as stated: for a target that is the total of some consumption within
\* the bound of the search (1,000,000 kWh), invert_bill_to_kwh with its
\* default tolerance and iterations returns a consumption whose bill is
\* within the tolerance of the target.
C2_RoundTripBelowLimit ==
    (FromBill /\ max_iter = MAX_ITER
       /\ pc \in {"invert_raised", "estimated"} /\ AttainedBelowLimit)
    => (pc = "estimated" /\ Within(result.total, value.mag, tol))

\* C2, amended: the same for a target that is the total of some
\* consumption of at most 524,288 kWh, the largest hi the search tests.
C2_RoundTrip ==
    (FromBill /\ max_iter = MAX_ITER
       /\ pc \in {"invert_raised", "estimated"} /\ Attained)
    => (pc = "estimated" /\ Within(result.total, value.mag, tol))

\* A target between two grid points, found after a long bisection
C2_Witness ==
    /\ FromBill
    /\ max_iter = MAX_ITER
    /\ pc = "estimated"
    /\ Attained
    /\ doublings >= 9
    /\ it >= 16
    /\ result.total # value.mag
    /\ Within(result.total, value.mag, tol)

\* The bounds of C9
C9_Bounds ==
    (FromBill /\ Supported /\ IsPositive(value)) =>
      /\ doublings <= 20
      /\ it <= max_iter
      /\ calls <= 20 + max_iter
      /\ pc \in {"bisect", "returned", "estimated"}
           => LeqN(value.mag, TotalAt(hi))
      /\ pc = "invert_raised"
           => /\ error = "Unable to estimate kWh for this bill amount."
              /\ LessN(KwhOf(1000000, 0), hi)
      /\ pc \in {"returned", "estimated"}
           => ret = DivSmall(AddN(lo, hi), 2)

\* What is left of the search: its phases, doublings and iterations
C9_Rank ==
    (IF pc = "bracket" THEN 2 ELSE IF pc = "bisect" THEN 1 ELSE 0)
    + (20 - doublings) + (max_iter - it)

\* A step of the search leaves less of it
C9_Progress ==
    (FromBill /\ Supported /\ pc \in {"bracket", "bisect"})
    => (C9_Rank' < C9_Rank /\ C9_Rank' >= 0)

\* C9: for a supported year and category and a target > 0, the bracket
\* phase doubles hi at most 20 times and ends with a bill at hi that is
\* not below the target, or with the search error once hi is above
\* 1,000,000; the bisection makes at most max_iter steps and returns
\* (lo + hi) / 2; calculate_bill is called at most 20 + max_iter times; and
\* the search terminates, every step of it leaving less to do.
C9_Terminates == []C9_Bounds /\ [][C9_Progress]_vars

\* A search that used all its iterations
C9_Witness ==
    /\ FromBill
    /\ Supported
    /\ pc = "returned"
    /\ max_iter = MAX_ITER
    /\ it = MAX_ITER
    /\ calls > MAX_ITER

\* C10: extract_summary returns the four charges of the bill, they sum to
\* the total it returns, and the levies displayed for a category other
\* than Residential are levy + tax.
C10_Summary ==
    (pc \in {"billed", "rebilled", "estimated"} /\ result.ok /\ Supported)
    => /\ summary.energy = result.energy_charge
       /\ summary.service = result.service_charge
       /\ summary.levies = result.levy
       /\ summary.taxes = result.tax
       /\ AddN(AddN(AddN(summary.energy, summary.service), summary.levies),
               summary.taxes) = summary.total
       /\ category # "Residential"
            => levies_display(category, summary)
                 = AddN(result.levy, result.tax)

====
